---- MODULE Spec2Model ----
(***************************************************************************)
(* Model of the three gl-react Julia-set components of this repository:    *)
(*   JuliaFractal       (src/src/julia-fractal.tsx)                        *)
(*   JuliaImageFractal  (src/src/julia-image-fractal.tsx)                  *)
(*   JuliaFieldFractal  (src/src/julia-field-fractal.tsx)                  *)
(*                                                                         *)
(* Spec follows ONE fragment (one pixel) through the shader's main(), one  *)
(* action per statement group.  SpecMemo follows a mounted                 *)
(* JuliaFieldFractal over a sequence of renders (the useMemo cell).        *)
(*                                                                         *)
(* Numbers.  The viewport mapping is computed in exact rational            *)
(* arithmetic (pairs <<num, den>>).  The iteration is computed exactly on  *)
(* start points that are Gaussian integers, with integer exponents; on     *)
(* those the polar form  |z|^p (cos(p*theta), sin(p*theta))  is the        *)
(* complex power z^p.  Colours are fixed point, ColorUnit per 1.0, each    *)
(* operation rounded down once.  The smooth iteration count involves       *)
(* log(log(|z|^2)); the model carries floor(2*fiter), which for an integer *)
(* |z|^2 is decided exactly by comparing |z|^2 with floor(e^(2^(j/2))).    *)
(***************************************************************************)
EXTENDS Integers, Sequences, FiniteSets, TLC

(***************************************************************************)
(* Bounds of the model (inputs that are enumerated).                       *)
(***************************************************************************)
\* the zoom prop ranges over -MaxZoom..MaxZoom
MaxZoom == 1
\* each coordinate of uv ranges over the fractions k/d of [0,1] with d <= UvSteps
UvSteps == 4
\* the exponents p, q, r range over 2..MaxPower
MaxPower == 3
\* explicit maxIterations props range over 0..MaxIterProp
MaxIterProp == 2
\* number of re-renders followed in SpecMemo
MaxRenders == 2

(***************************************************************************)
(* Program constants.                                                      *)
(***************************************************************************)
fullExtent == <<5, 4>>
\* maxIterations || 64, and the literal 64 of the two fixed shaders
DefaultIterations == 64
\* int iter = 65 in the two fixed shaders
FixedSentinel == 65
\* fixed point denominator of a colour channel: 1.0 is ColorUnit
ColorUnit == 1000000

(***************************************************************************)
(* Exact rationals <<n, d>>, d > 0, in lowest terms.                       *)
(***************************************************************************)
Abs(n) == IF n < 0 THEN -n ELSE n

RECURSIVE GCD(_, _)
GCD(a, b) == IF b = 0 THEN a ELSE GCD(b, a % b)

RNorm(n, d) ==
    LET s == IF d < 0 THEN -1 ELSE 1
        g == GCD(Abs(n), Abs(d))
    IN  <<(s * n) \div g, (s * d) \div g>>

RInt(n) == <<n, 1>>
RAdd(a, b) == RNorm(a[1] * b[2] + b[1] * a[2], a[2] * b[2])
RSub(a, b) == RNorm(a[1] * b[2] - b[1] * a[2], a[2] * b[2])
RMul(a, b) == RNorm(a[1] * b[1], a[2] * b[2])
RDiv(a, b) == RNorm(a[1] * b[2], a[2] * b[1])
RHalf == <<1, 2>>

\* mutant: the sign of the exponent is lost, 2**zoom
Pow2Neg_SignLost(zoom) == IF zoom >= 0 THEN <<2 ^ zoom, 1>> ELSE <<1, 2 ^ (-zoom)>>

\* 2**(-zoom) of the three components
Pow2Neg(zoom) == IF zoom >= 0 THEN <<1, 2 ^ zoom>> ELSE <<2 ^ (-zoom), 1>>

\* vec2 helpers on rational pairs
V2Add(a, b) == <<RAdd(a[1], b[1]), RAdd(a[2], b[2])>>
V2Sub(a, b) == <<RSub(a[1], b[1]), RSub(a[2], b[2])>>
V2Mul(a, b) == <<RMul(a[1], b[1]), RMul(a[2], b[2])>>
V2Scale(s, a) == <<RMul(s, a[1]), RMul(s, a[2])>>

(***************************************************************************)
(* main(), first three lines: the viewport mapping.                        *)
(*   vec2 zRange = zoom * vec2(5.00000000, 4.00000000);                    *)
(*   vec2 leftBottom = center - .5 * zRange;                               *)
(*   vec2 z = (leftBottom + uv * zRange);                                  *)
(* fullExtent[k].toFixed(8) prints 5 as "5.00000000", which GLSL reads     *)
(* back as 5.0.                                                            *)
(***************************************************************************)
zRangeOf(zoomU) == V2Scale(zoomU, <<RInt(fullExtent[1]), RInt(fullExtent[2])>>)
leftBottomOf(centerU, zoomU) == V2Sub(centerU, V2Scale(RHalf, zRangeOf(zoomU)))
StartPoint(uvIn, centerU, zoomU) ==
    V2Add(leftBottomOf(centerU, zoomU), V2Mul(uvIn, zRangeOf(zoomU)))

(***************************************************************************)
(* The components: props, the generated shader, the uniforms.              *)
(* An optional prop is a sequence: <<>> when omitted, <<v>> when given.    *)
(***************************************************************************)
\* JavaScript truthiness of the two optional props
TruthyNumber(opt) == opt # <<>> /\ opt[1] # 0
TruthyString(opt) == opt # <<>> /\ opt[1] # ""

\* ${maxIterations || 64}
IterationsOf(maxIterations) ==
    IF TruthyNumber(maxIterations) THEN maxIterations[1] ELSE DefaultIterations

\* the text generated by the GLSL template of JuliaFieldFractal: the three
\* interpolated numbers and the interpolated expression
FieldShader(fieldExpr, maxIterations) ==
    [ name       |-> "shader",
      iterations |-> IterationsOf(maxIterations),
      sentinel   |-> IterationsOf(maxIterations) + 1,
      interior   |-> IterationsOf(maxIterations),
      expr       |-> IF TruthyString(fieldExpr) THEN fieldExpr ELSE <<>> ]

\* the two fixed shaders
juliaFractal ==
    [ name |-> "juliaFractal", iterations |-> DefaultIterations,
      sentinel |-> FixedSentinel, interior |-> FixedSentinel, expr |-> <<>> ]
imageFractal ==
    [ name |-> "imageFractal", iterations |-> DefaultIterations,
      sentinel |-> FixedSentinel, interior |-> FixedSentinel, expr |-> <<>> ]

\* uniforms={{ center, zoom: 2**(-zoom), c, p0: p, q, r, image }}
UniformsOf(pr) ==
    [ center |-> pr.center, zoom |-> Pow2Neg(pr.zoom), c |-> pr.c,
      p |-> pr.p, q |-> pr.q, r |-> pr.r, image |-> pr.image ]

\* mutant: maxIterations is missing from the dependency list
MemoDeps_ExprOnly(pr) == <<pr.fieldExpr>>

\* the dependency list of useMemo
MemoDeps(pr) == <<pr.fieldExpr, pr.maxIterations>>

(***************************************************************************)
(* Inputs.                                                                 *)
(***************************************************************************)
Powers == 2..MaxPower
Zooms == (-1)..MaxZoom
Centers == { <<RInt(0), RInt(0)>>, <<RHalf, RInt(0)>> }
JuliaConstants == { <<0, 0>>, <<0, 1>> }
Images == { "quad" }
FieldExprs ==
    { <<>>, <<"0.0">>, <<"1.0">>, <<"step(1.0, dot(lastZ, lastZ))">> }
MaxIterationsProps == { <<>> } \cup { <<n>> : n \in 0..MaxIterProp }

UVCoords == { RNorm(k, d) : k \in 0..UvSteps, d \in 1..UvSteps } \cap
            { f \in (0..UvSteps) \X (1..UvSteps) : f[1] <= f[2] }
UVGrid == UVCoords \X UVCoords

\* props of JuliaFractal: the props the component does not have are fixed
ColorProps ==
    [ center : Centers, zoom : Zooms, c : JuliaConstants, p : Powers,
      q : {2}, r : {2}, image : {"none"}, fieldExpr : {<<>>}, maxIterations : {<<>>} ]
ImageProps ==
    [ center : Centers, zoom : Zooms, c : JuliaConstants, p : Powers,
      q : {2}, r : {2}, image : Images, fieldExpr : {<<>>}, maxIterations : {<<>>} ]
FieldProps ==
    [ center : Centers, zoom : Zooms, c : JuliaConstants, p : Powers,
      q : {2, MaxPower}, r : {2, MaxPower}, image : Images,
      fieldExpr : FieldExprs, maxIterations : MaxIterationsProps ]

(***************************************************************************)
(* State.                                                                  *)
(***************************************************************************)
VARIABLES
    props,          \* the props of the current render
    shader,         \* the shader object handed to <Node>
    uniforms,       \* the uniforms handed to <Node>
    memo,           \* the useMemo cell of JuliaFieldFractal: [deps, value]
    created,        \* number of Shaders.create calls so far (object identity)
    renders,        \* number of re-renders so far
    uv,             \* varying vec2 uv of the fragment
    pc,             \* position in main()
    z, z0, lastZ,   \* vec2 z, z0, lastZ
    iter,           \* int iter
    i,              \* loop counter
    p,              \* the exponent used by the power map
    rgb,            \* the sampled colour
    mag2i,          \* the falloff weight, a rational <<n, d>>
    t,              \* value of fieldExpr in this iteration
    gl_FragColor,   \* <<r, g, b, a>>
    atanZero,       \* what atan(0,0) gives on this build: "unset" until evaluated
    nanTexel,       \* the texel a not-a-number coordinate fetches on this build
    zs,             \* history: the start point and every iterate produced
    bodyCount,      \* history: number of loop bodies entered
    sampleCount,    \* history: number of samples added to gl_FragColor
    bind            \* history: the bindings fieldExpr saw when last evaluated

vars == << props, shader, uniforms, memo, created, renders, uv, pc, z, z0, lastZ,
           iter, i, p, rgb, mag2i, t, gl_FragColor, atanZero, nanTexel, zs, bodyCount, sampleCount, bind >>

kernelVars == << uv, pc, z, z0, lastZ, iter, i, p, rgb, mag2i, t, gl_FragColor,
                 atanZero, nanTexel, zs, bodyCount, sampleCount, bind >>
componentVars == << props, shader, uniforms, memo, created, renders >>

\* a finite vec2 on the integer lattice, or the not-a-number vec2
Vec(x, y) == [x |-> x, y |-> y, nan |-> FALSE]
NaNVec == [x |-> 0, y |-> 0, nan |-> TRUE]
Black == <<0, 0, 0, ColorUnit>>
Unwritten == <<0, 0, 0, 0>>
NoBind == [z |-> Vec(0, 0), z0 |-> Vec(0, 0), lastZ |-> Vec(0, 0),
           accum |-> <<0, 0, 0>>, i |-> -1, samples |-> 0]

IsLattice(v) == v[1][2] = 1 /\ v[2][2] = 1

\* the kernel's variables before main() starts
KernelIdle ==
    /\ pc = "main"
    /\ z = Vec(0, 0) /\ z0 = Vec(0, 0) /\ lastZ = Vec(0, 0)
    /\ iter = 0 /\ i = 0 /\ p = 0
    /\ rgb = <<0, 0, 0>> /\ mag2i = <<0, 1>> /\ t = 0
    /\ gl_FragColor = Unwritten /\ nanTexel = <<0, 0, 0>>
    /\ atanZero = "unset"
    /\ zs = <<>> /\ bodyCount = 0 /\ sampleCount = 0 /\ bind = NoBind

\* the shader a component hands to <Node> on its first render
FirstShader(comp, pr) ==
    CASE comp = "JuliaFractal"      -> juliaFractal
      [] comp = "JuliaImageFractal" -> imageFractal
      [] comp = "JuliaFieldFractal" -> FieldShader(pr.fieldExpr, pr.maxIterations)

PropsOf(comp) ==
    CASE comp = "JuliaFractal"      -> ColorProps
      [] comp = "JuliaImageFractal" -> ImageProps
      [] comp = "JuliaFieldFractal" -> FieldProps

Components == { "JuliaFractal", "JuliaImageFractal", "JuliaFieldFractal" }

\* first render of one of the three components, and one fragment of its surface
Init ==
    /\ \E comp \in Components : \E pr \in PropsOf(comp) :
          /\ props = pr
          /\ uniforms = UniformsOf(pr)
          /\ shader = FirstShader(comp, pr)
          /\ memo = IF comp = "JuliaFieldFractal" THEN <<MemoDeps(pr), 1>> ELSE <<>>
          /\ created = IF comp = "JuliaFieldFractal" THEN 1 ELSE 0
          /\ \E u \in UVGrid :
                /\ IsLattice(StartPoint(u, UniformsOf(pr).center, UniformsOf(pr).zoom))
                /\ uv = u
    /\ renders = 0
    /\ KernelIdle

(***************************************************************************)
(* Arithmetic of the kernel on the integer lattice.                        *)
(***************************************************************************)
\* dot(z, z)
Dot(v) == v.x * v.x + v.y * v.y

\* the lattice point of a rational vec2 with denominators 1
ToLattice(v) == Vec(v[1][1], v[2][1])

\* the p == 2.0 branch:
\*   float nextR = dot(z, z*vec2(1.0,-1.0));  z = c + vec2(nextR, 2.0*z.x*z.y);
SquareMap(v, c) == Vec(c[1] + (v.x * v.x - v.y * v.y), c[2] + 2 * v.x * v.y)

\* z^n by repeated complex multiplication
RECURSIVE CPow(_, _)
CPow(v, n) ==
    IF n = 0 THEN Vec(1, 0)
    ELSE LET w == CPow(v, n - 1)
         IN  Vec(w.x * v.x - w.y * v.y, w.x * v.y + w.y * v.x)

\* the else branch:
\*   scale = pow(dot(z,z), 0.5*p); theta = p * atan2(z.y, z.x);
\*   z = c + vec2(scale*cos(theta), scale*sin(theta));
\* For z # 0 and an integer p this is c + z^p.  At z = (0,0) atan(0,0) is
\* undefined in GLSL: scale is 0, and the result is c when the angle comes
\* out finite and not-a-number when it does not.
PolarMap(v, c, pw) ==
    IF v.x = 0 /\ v.y = 0
    THEN { Vec(c[1], c[2]), NaNVec }
    ELSE { Vec(c[1] + CPow(v, pw).x, c[2] + CPow(v, pw).y) }

\* the power map evaluates atan(0, 0)
AtanUndefined(v, pw) == ~v.nan /\ pw # 2 /\ v.x = 0 /\ v.y = 0

\* z = z^p + c : the set of values the build can produce
PowerMap(v, c, pw) ==
    IF v.nan THEN { NaNVec }
    ELSE IF pw = 2 THEN { SquareMap(v, c) }
    ELSE PolarMap(v, c, pw)

\* mutant: one threshold for all three shaders
EscapeRadius2_Unified(name) == 10

\* the squared radius of the escape test:
\*   length(z) > 4.0  in juliaFractal,  dot(z, z) > 10.0  in the other two
EscapeRadius2(name) == IF name = "juliaFractal" THEN 16 ELSE 10

\* a comparison with not-a-number is false
Escaped(v, name) == ~v.nan /\ Dot(v) > EscapeRadius2(name)

(***************************************************************************)
(* The source image: a 2 x 2 texture, nearest texel, clamped at the edge.  *)
(*   uvNow = z * vec2(.2, .25) + vec2(.5, .5)                              *)
(* uvNow.x < 0.5 exactly when z.x < 0, likewise for y.                     *)
(***************************************************************************)
Texel(image, col, row) ==
    IF image = "white" THEN <<ColorUnit, ColorUnit, ColorUnit>>
    ELSE CASE col = 0 /\ row = 0 -> <<0, 0, 0>>
           [] col = 1 /\ row = 0 -> <<ColorUnit, 0, 0>>
           [] col = 0 /\ row = 1 -> <<0, ColorUnit, 0>>
           [] col = 1 /\ row = 1 -> <<ColorUnit, ColorUnit, ColorUnit>>

\* the texels of an image (a shader without a sampler has none to choose from)
Texels(image) ==
    IF image = "none" THEN { <<0, 0, 0>> }
    ELSE { Texel(image, col, row) : col \in 0..1, row \in 0..1 }

\* texture2D(image, uvNow).rgb ; which texel a not-a-number coordinate
\* fetches is not defined: it is the texel nan, whichever the build fetches
texture2D(image, v, nan) ==
    IF v.nan THEN nan
    ELSE Texel(image, IF v.x < 0 THEN 0 ELSE 1, IF v.y < 0 THEN 0 ELSE 1)

\* mag2i = clamp(1.0 / max(1.0, .35 * dot(z, z)), 0.0, 1.0), as a rational.
\* max(x, y) is y if x < y and x otherwise, so max(1.0, NaN) is 1.0.
Mag2i(v) ==
    IF v.nan \/ 7 * Dot(v) <= 20 THEN <<1, 1>> ELSE <<20, 7 * Dot(v)>>

\* mutant: a moving average, .01 * mag2i * (rgb - gl_FragColor.rgb)
AccumDelta_MovingAverage(a, b, w) == (w[1] * (b - a)) \div (100 * w[2])

\* one channel of  .01 * mix(gl_FragColor.rgb, rgb, mag2i)
\*   mix(a, b, w) = a*(1-w) + b*w
AccumDelta(a, b, w) == (a * w[2] + w[1] * (b - a)) \div (100 * w[2])

(***************************************************************************)
(* fieldExpr, as a function of the bindings in scope where it is pasted.   *)
(* (vec3 hsv = rgb2hsv(rgb) is a local that only the expression can read;  *)
(* none of the expressions enumerated here reads it.)                      *)
(***************************************************************************)
\* step(edge, x) is 0.0 if x < edge and 1.0 otherwise
EvalFieldExpr(e, b) ==
    CASE e = "0.0" -> 0
      [] e = "1.0" -> 1
      [] e = "step(1.0, dot(lastZ, lastZ))" ->
            IF ~b.lastZ.nan /\ Dot(b.lastZ) < 1 THEN 0 ELSE 1

\* mutant: q and r exchanged
FieldPower_Exchanged(q, r, tv) == r + (q - r) * tv

\* p = q + (r-q)*(fieldExpr)
FieldPower(q, r, tv) == q + (r - q) * tv

(***************************************************************************)
(* The smooth iteration count.                                             *)
(*   fiter = log(dot(z,z));                                                *)
(*   fiter = (fiter >= 0.0) ? (float(iter) - log(fiter)/log(2.0))          *)
(*                          : (fiter + float(iter));                       *)
(* For an escaped z, m = dot(z,z) > 10, so log(m) > 0 and                  *)
(* fiter = iter - log2(ln m).  ceil(2*log2(ln m)) is the least j with      *)
(* m <= e^(2^(j/2)); those bounds are irrational, so for an integer m the  *)
(* comparison with their floors is exact.                                  *)
(***************************************************************************)
CeilTwoLog2Ln(m) ==
    CASE m <= 2       -> 0
      [] m <= 4       -> 1
      [] m <= 7       -> 2
      [] m <= 16      -> 3
      [] m <= 54      -> 4
      [] m <= 286     -> 5
      [] m <= 2980    -> 6
      [] m <= 81937   -> 7
      [] m <= 8886110 -> 8
      [] OTHER        -> 9

\* floor(2 * fiter)
Fiter2(iterv, m) == 2 * iterv - CeilTwoLog2Ln(m)

\* striping = mod(fiter, 1.0) >= 0.5 ? 1.0 : 0.8, in tenths
Striping10(f2) == IF f2 % 2 = 1 THEN 10 ELSE 8

\* one channel of hsv2rgb(vec3(fiter/64.0, .8, .8)); k is 1, 2, 3 for K.x, K.y, K.z.
\* The hue is taken at floor(2*fiter)/128, in units of 1/384.
hsv2rgb(f2, k) ==
    LET f   == (3 * f2 + (4 - k) * 128) % 384
        pk  == Abs(6 * f - 1152)
        cl  == IF pk - 384 < 0 THEN 0 ELSE IF pk - 384 > 384 THEN 384 ELSE pk - 384
    IN  (((8 * ColorUnit) \div 10) * (96 + cl)) \div 480

(***************************************************************************)
(* main() of the three shaders, one action per statement group.            *)
(***************************************************************************)
Accum == <<gl_FragColor[1], gl_FragColor[2], gl_FragColor[3]>>

\* the declarations before the loop
MapPixel ==
    /\ pc = "main"
    /\ z' = ToLattice(StartPoint(uv, uniforms.center, uniforms.zoom))
    /\ z0' = z'
    /\ lastZ' = z'
    /\ iter' = shader.sentinel
    /\ i' = 0
    /\ p' = IF shader.name = "shader" THEN 0 ELSE uniforms.p
    /\ gl_FragColor' = IF shader.name = "juliaFractal" THEN Unwritten ELSE Black
    /\ zs' = <<z'>>
    /\ pc' = "loop"
    /\ UNCHANGED <<componentVars, atanZero, nanTexel, sampleCount, uv, rgb, mag2i, t, bodyCount, bind>>

\* for (int i=0; i<N; ++i) : the loop condition
LoopTest ==
    /\ pc = "loop"
    /\ IF i < shader.iterations
       THEN /\ bodyCount' = bodyCount + 1
            /\ pc' = IF shader.name = "juliaFractal" THEN "map" ELSE "sample"
       ELSE /\ bodyCount' = bodyCount
            /\ pc' = "final"
    /\ UNCHANGED <<componentVars, atanZero, nanTexel, sampleCount, uv, z, z0, lastZ, iter, i, p, rgb, mag2i, t,
                   gl_FragColor, zs, bind>>

\* uvNow, rgb, mag2i, gl_FragColor.rgb += .01*mix(gl_FragColor.rgb, rgb, mag2i)
Sample ==
    /\ pc = "sample"
    /\ LET texel == texture2D(uniforms.image, z, nanTexel) IN
          /\ rgb' = texel
          /\ mag2i' = Mag2i(z)
          /\ gl_FragColor' =
                << gl_FragColor[1] + AccumDelta(gl_FragColor[1], texel[1], Mag2i(z)),
                   gl_FragColor[2] + AccumDelta(gl_FragColor[2], texel[2], Mag2i(z)),
                   gl_FragColor[3] + AccumDelta(gl_FragColor[3], texel[3], Mag2i(z)),
                   gl_FragColor[4] >>
    /\ sampleCount' = sampleCount + 1
    /\ pc' = IF shader.name = "shader" THEN "field" ELSE "map"
    /\ UNCHANGED <<componentVars, atanZero, nanTexel, uv, z, z0, lastZ, iter, i, p, t, zs, bodyCount, bind>>

\* mutant: lastZ = z is executed before fieldExpr is evaluated
EvalField_AfterLastZ ==
    /\ pc = "field"
    /\ lastZ' = z
    /\ IF shader.expr # <<>>
       THEN LET b  == [z |-> z, z0 |-> z0, lastZ |-> z, accum |-> Accum,
                       rgb |-> rgb, i |-> i]
                tv == EvalFieldExpr(shader.expr[1], b)
            IN  /\ t' = tv
                /\ p' = FieldPower(uniforms.q, uniforms.r, tv)
                /\ bind' = [z |-> z, z0 |-> z0, lastZ |-> z, accum |-> Accum,
                            i |-> i, samples |-> sampleCount]
       ELSE /\ p' = uniforms.p
            /\ UNCHANGED <<t, bind>>
    /\ pc' = "lastz"
    /\ UNCHANGED <<componentVars, atanZero, nanTexel, sampleCount, uv, z, z0, iter, i,
                   rgb, mag2i, gl_FragColor, zs, bodyCount>>

\* float p = p0;  and, when fieldExpr was given,
\* vec3 hsv = rgb2hsv(rgb);  p = q + (r-q)*(fieldExpr);
EvalField ==
    /\ pc = "field"
    /\ IF shader.expr # <<>>
       THEN LET b  == [z |-> z, z0 |-> z0, lastZ |-> lastZ, accum |-> Accum,
                       rgb |-> rgb, i |-> i]
                tv == EvalFieldExpr(shader.expr[1], b)
            IN  /\ t' = tv
                /\ p' = FieldPower(uniforms.q, uniforms.r, tv)
                /\ bind' = [z |-> z, z0 |-> z0, lastZ |-> lastZ, accum |-> Accum,
                            i |-> i, samples |-> sampleCount]
       ELSE /\ p' = uniforms.p
            /\ UNCHANGED <<t, bind>>
    /\ pc' = "lastz"
    /\ UNCHANGED <<componentVars, atanZero, nanTexel, sampleCount, uv, z, z0, lastZ, iter, i, rgb, mag2i,
                   gl_FragColor, zs, bodyCount>>

\* lastZ = z;   (the field shader sets it before the power map)
SetLastZ ==
    /\ pc = "lastz"
    /\ lastZ' = z
    /\ pc' = "map"
    /\ UNCHANGED <<componentVars, atanZero, nanTexel, sampleCount, uv, z, z0, iter, i, p, rgb, mag2i, t,
                   gl_FragColor, zs, bodyCount, bind>>

\* z = z^p + c
PowerMapStep ==
    /\ pc = "map"
    /\ \E nz \in PowerMap(z, uniforms.c, p) :
          /\ z' = nz
          /\ zs' = Append(zs, nz)
          /\ IF AtanUndefined(z, p)
             THEN /\ atanZero' = (IF nz.nan THEN "nan" ELSE "finite")
                  /\ atanZero \in {"unset", atanZero'}
             ELSE atanZero' = atanZero
          /\ IF nz.nan /\ ~z.nan
             THEN nanTexel' \in Texels(uniforms.image)
             ELSE nanTexel' = nanTexel
    /\ pc' = "test"
    /\ UNCHANGED <<componentVars, sampleCount, uv, z0, lastZ, iter, i, p, rgb, mag2i, t,
                   gl_FragColor, bodyCount, bind>>

\* mutant: the break without iter = i
EscapeTest_NoRecord ==
    /\ pc = "test"
    /\ IF Escaped(z, shader.name)
       THEN /\ pc' = "final"
            /\ UNCHANGED <<i, lastZ>>
       ELSE /\ lastZ' = IF shader.name = "shader" THEN lastZ ELSE z
            /\ i' = i + 1
            /\ pc' = "loop"
    /\ UNCHANGED <<componentVars, atanZero, nanTexel, sampleCount, uv, z, z0, p, rgb,
                   mag2i, t, gl_FragColor, zs, bodyCount, bind, iter>>

\* if (escaped) { iter = i; break; }   lastZ = z; (the two fixed shaders)   ++i
EscapeTest ==
    /\ pc = "test"
    /\ IF Escaped(z, shader.name)
       THEN /\ iter' = i
            /\ pc' = "final"
            /\ UNCHANGED <<i, lastZ>>
       ELSE /\ lastZ' = IF shader.name = "shader" THEN lastZ ELSE z
            /\ i' = i + 1
            /\ pc' = "loop"
            /\ UNCHANGED iter
    /\ UNCHANGED <<componentVars, atanZero, nanTexel, sampleCount, uv, z, z0, p, rgb, mag2i, t, gl_FragColor, zs,
                   bodyCount, bind>>

\* the colour written for an escaped fragment
\*   juliaFractal: striping * vec4(hsv2rgb(vec3(fiter/64.0, .8, .8)), 1.0)
\*   imageFractal: gl_FragColor *= vec4(scale, scale, scale, 1.0), scale = 65.0/fiter;
\*                 2*fiter lies strictly between f2 and f2+1, the model divides
\*                 130 by the one of the two that is further from 0
\*   shader:       scale = (iter == 0) ? 100.0 : 1.0 / (.01 * float(iter))
EscapedColor(name, col, iterv, m) ==
    LET f2 == Fiter2(iterv, m)
        fh == IF f2 >= 0 THEN f2 + 1 ELSE f2
    IN  CASE name = "juliaFractal" ->
               << (Striping10(f2) * hsv2rgb(f2, 1)) \div 10,
                  (Striping10(f2) * hsv2rgb(f2, 2)) \div 10,
                  (Striping10(f2) * hsv2rgb(f2, 3)) \div 10,
                  (Striping10(f2) * ColorUnit) \div 10 >>
          [] name = "imageFractal" ->
               << (col[1] * 130) \div fh, (col[2] * 130) \div fh,
                  (col[3] * 130) \div fh, col[4] >>
          [] name = "shader" ->
               IF iterv = 0
               THEN << col[1] * 100, col[2] * 100, col[3] * 100, col[4] >>
               ELSE << (col[1] * 100) \div iterv, (col[2] * 100) \div iterv,
                       (col[3] * 100) \div iterv, col[4] >>

\* if (iter == <interior>) { black } else { the escaped colour }
\* A z that is not a number, or is 0, only reaches the else branch in the
\* field shader, which does not use fiter.
Finalize ==
    /\ pc = "final"
    /\ gl_FragColor' =
          IF iter = shader.interior
          THEN Black
          ELSE EscapedColor(shader.name, gl_FragColor, iter,
                            IF z.nan THEN 0 ELSE Dot(z))
    /\ pc' = "done"
    /\ UNCHANGED <<componentVars, atanZero, nanTexel, sampleCount, uv, z, z0, lastZ, iter, i, p, rgb, mag2i, t, zs,
                   bodyCount, bind>>

Next ==
    \/ MapPixel
    \/ LoopTest
    \/ Sample
    \/ EvalField
    \/ SetLastZ
    \/ PowerMapStep
    \/ EscapeTest
    \/ Finalize

Spec == Init /\ [][Next]_vars

(***************************************************************************)
(* JuliaFieldFractal over a sequence of renders: the useMemo cell.         *)
(* useMemo keeps the value of the previous render when every dependency is *)
(* the same (Object.is) as in the previous render, and calls the factory   *)
(* otherwise.  memo = <<deps, k>>: the memoised object is the k-th one     *)
(* Shaders.create returned.                                                *)
(***************************************************************************)
\* the props that only reach the uniforms, varied together
UniformProps ==
    { [center |-> <<RInt(0), RInt(0)>>, zoom |-> 0, c |-> <<0, 0>>,
       p |-> 2, q |-> 2, r |-> 2, image |-> "quad"],
      [center |-> <<RHalf, RInt(0)>>, zoom |-> 1, c |-> <<0, 1>>,
       p |-> 2, q |-> 2, r |-> 2, image |-> "quad"],
      [center |-> <<RInt(0), RInt(0)>>, zoom |-> 0, c |-> <<0, 0>>,
       p |-> 3, q |-> 3, r |-> 2, image |-> "white"] }

MemoProps ==
    { [center |-> u.center, zoom |-> u.zoom, c |-> u.c, p |-> u.p, q |-> u.q,
       r |-> u.r, image |-> u.image, fieldExpr |-> e, maxIterations |-> m] :
         u \in UniformProps, e \in { <<>>, <<"">>, <<"0.0">> },
         m \in MaxIterationsProps }

InitMemo ==
    /\ \E pr \in MemoProps :
          /\ props = pr
          /\ uniforms = UniformsOf(pr)
          /\ shader = FieldShader(pr.fieldExpr, pr.maxIterations)
          /\ memo = <<MemoDeps(pr), 1>>
    /\ created = 1
    /\ renders = 0
    /\ uv = <<RHalf, RHalf>>
    /\ KernelIdle

\* JuliaFieldFractal(props) called again on the mounted component
Render ==
    /\ renders < MaxRenders
    /\ \E pr \in MemoProps :
          /\ props' = pr
          /\ uniforms' = UniformsOf(pr)
          /\ IF MemoDeps(pr) = memo[1]
             THEN /\ shader' = shader
                  /\ memo' = memo
                  /\ created' = created
             ELSE /\ shader' = FieldShader(pr.fieldExpr, pr.maxIterations)
                  /\ memo' = <<MemoDeps(pr), created + 1>>
                  /\ created' = created + 1
    /\ renders' = renders + 1
    /\ UNCHANGED kernelVars

NextMemo == Render

SpecMemo == InitMemo /\ [][NextMemo]_vars

(***************************************************************************)
(* Properties.                                                             *)
(***************************************************************************)
LoopDone == pc \in {"final", "done"}
IsField == shader.name = "shader"
HasExpr == TruthyString(props.fieldExpr)

\* C1: in all three variants the output colour has alpha exactly 1, for
\* escaped and unescaped pixels alike, and no step of the kernel moves the
\* alpha channel of a written gl_FragColor away from 1.
C1_AlphaOpaque ==
    /\ pc = "done" => gl_FragColor[4] = ColorUnit
    /\ gl_FragColor # Unwritten => gl_FragColor[4] = ColorUnit

\* C2: in every variant a pixel whose iter still holds the sentinel after
\* the loop is output as opaque black.
C2_InteriorBlack ==
    (pc = "done" /\ iter = shader.sentinel) => gl_FragColor = Black

\* C3: the loop body is entered at most maxIterations times when the prop
\* is given (any non-negative integer), at most 64 times when it is omitted
\* and in the two fixed shaders.
C3_LoopBound ==
    bodyCount <= (IF props.maxIterations # <<>> THEN props.maxIterations[1] ELSE 64)

\* C4: after the loop iter is the sentinel (and no iterate exceeded the
\* threshold) or the least index whose iterate exceeds the variant's
\* threshold, |z|^2 > 16 for juliaFractal and |z|^2 > 10 for the other two;
\* once iter is recorded no loop step follows and z and iter stay as they are.
C4_Exceeds(v) ==
    ~v.nan /\ v.x * v.x + v.y * v.y > (IF shader.name = "juliaFractal" THEN 16 ELSE 10)

C4_AfterLoop ==
    LoopDone =>
       \/ /\ iter = shader.sentinel
          /\ \A k \in 2..Len(zs) : ~C4_Exceeds(zs[k])
       \/ /\ iter \in 0..(shader.iterations - 1)
          /\ Len(zs) = iter + 2
          /\ C4_Exceeds(zs[iter + 2])
          /\ z = zs[iter + 2]
          /\ \A k \in 2..(iter + 1) : ~C4_Exceeds(zs[k])

C4_Frozen ==
    (pc # "main" /\ iter # shader.sentinel) =>
       /\ pc = "final" /\ pc' = "done"
       /\ z' = z /\ iter' = iter /\ i' = i
       /\ bodyCount' = bodyCount /\ sampleCount' = sampleCount

C4_FirstEscape == []C4_AfterLoop /\ [][C4_Frozen]_vars

C4_Witness ==
    /\ pc = "done" /\ shader.name = "juliaFractal" /\ iter \in 1..63
    /\ \E k \in 2..Len(zs) : ~zs[k].nan /\ Dot(zs[k]) > 10 /\ Dot(zs[k]) <= 16

\* C5 as stated: each sample changes every channel by 0.01 * w * (rgb - accum)
\* (to within one unit of the colour representation).
C5_Original ==
    [][ pc = "sample" =>
          \A ch \in 1..3 :
             LET d == gl_FragColor'[ch] - gl_FragColor[ch]
                 w == mag2i'
             IN  /\ 100 * w[2] * (d - 1) <= w[1] * (rgb'[ch] - gl_FragColor[ch])
                 /\ w[1] * (rgb'[ch] - gl_FragColor[ch]) <= 100 * w[2] * (d + 1) ]_vars

\* C5 amended: each sample changes every channel by
\* 0.01 * (accum + w * (rgb - accum)), rounded down to the colour unit, where
\* w = clamp(1/max(1, 0.35*|z|^2), 0, 1) and rgb is the texel under
\* z*(0.2,0.25)+(0.5,0.5); alpha is not touched.
C5_Accumulate ==
    [][ pc = "sample" =>
          /\ \A ch \in 1..3 :
                LET d == gl_FragColor'[ch] - gl_FragColor[ch]
                    w == mag2i'
                    e == gl_FragColor[ch] * w[2] + w[1] * (rgb'[ch] - gl_FragColor[ch])
                IN  100 * w[2] * d <= e /\ e < 100 * w[2] * (d + 1)
          /\ gl_FragColor'[4] = gl_FragColor[4]
          /\ ~z.nan =>
                /\ IF 35 * (z.x * z.x + z.y * z.y) <= 100
                   THEN mag2i'[1] = mag2i'[2]
                   ELSE 35 * (z.x * z.x + z.y * z.y) * mag2i'[1] = 100 * mag2i'[2]
                /\ rgb' = Texel(uniforms.image,
                                IF 2 * z.x + 5 < 5 THEN 0 ELSE 1,
                                IF 25 * z.y + 50 < 50 THEN 0 ELSE 1) ]_vars

C5_Witness ==
    /\ pc \in {"field", "map"} /\ shader.name # "juliaFractal"
    /\ sampleCount >= 2 /\ mag2i[2] > mag2i[1]
    /\ \E ch \in 1..3 : gl_FragColor[ch] > 0 /\ rgb[ch] > 0

\* C6: in the field variant, with a fieldExpr the exponent of each iteration
\* is q + (r - q) * t whatever the prop p is; a constant 0 gives q and a
\* constant 1 gives r in every iteration, and every iterate is the one the
\* power map produces with that fixed exponent; without a fieldExpr every
\* iteration uses the prop p.
C6_FixedExponent ==
    CASE ~HasExpr -> <<props.p>>
      [] HasExpr /\ props.fieldExpr[1] = "0.0" -> <<props.q>>
      [] HasExpr /\ props.fieldExpr[1] = "1.0" -> <<props.r>>
      [] OTHER -> <<>>

C6_FieldExponent ==
    IsField =>
       /\ pc \in {"lastz", "map", "test"} =>
             /\ HasExpr => p - props.q = (props.r - props.q) * t
             /\ C6_FixedExponent # <<>> => p = C6_FixedExponent[1]
       /\ C6_FixedExponent # <<>> =>
             /\ (pc = "test") =>
                   /\ Len(zs) = i + 2
                   /\ z = zs[i + 2]
                   /\ zs[i + 2] \in PowerMap(zs[i + 1], props.c, C6_FixedExponent[1])
             /\ (LoopDone /\ iter # shader.sentinel) =>
                   /\ iter = Len(zs) - 2
                   /\ Escaped(zs[Len(zs)], "shader")
                   /\ \A k \in 2..(Len(zs) - 1) : ~Escaped(zs[k], "shader")

C6_Witness ==
    /\ IsField /\ HasExpr /\ props.fieldExpr[1] = "1.0"
    /\ props.q # props.r /\ props.p # props.r
    /\ pc = "test" /\ i >= 1 /\ ~z.nan

\* C7: z0 = center + (uv - (0.5,0.5)) * (5,4) * 2^(-zoom) with zoom the prop;
\* uv = (0.5,0.5) gives center, uv = (0,0) gives center - extent/2, and uv is
\* recovered from z0, center and zoom.
C7_Scale(d) == IF props.zoom >= 0 THEN RMul(d, RInt(2 ^ props.zoom))
               ELSE RDiv(d, RInt(2 ^ (-props.zoom)))

C7_Mapping ==
    pc # "main" =>
       /\ \A k \in 1..2 :
             LET zk == RInt(IF k = 1 THEN z0.x ELSE z0.y)
                 d  == RSub(zk, props.center[k])
             IN  /\ C7_Scale(d) = RMul(RSub(uv[k], RHalf), RInt(fullExtent[k]))
                 /\ uv[k] = RAdd(RHalf, RDiv(C7_Scale(d), RInt(fullExtent[k])))
                 /\ uv[k] = RHalf => zk = props.center[k]
                 /\ uv[k] = RInt(0) =>
                       C7_Scale(RSub(props.center[k], zk)) = RNorm(fullExtent[k], 2)
       /\ ~z0.nan

C7_Witness ==
    /\ pc = "loop" /\ i = 0 /\ props.zoom = 1 /\ uv[2] # RHalf
    /\ RInt(z0.y) # props.center[2]

\* C8: with c = (0,0) and exponent 2.0 a pixel with |z0| > 2 has an escape
\* recorded before the loop ends, in every variant, and does not take the
\* no-escape branch.
C8_EscapeRadius ==
    ( /\ LoopDone
      /\ props.c = <<0, 0>> /\ props.p = 2 /\ ~HasExpr
      /\ z0.x * z0.x + z0.y * z0.y > 4 )
    => /\ iter \in 0..(shader.iterations - 1)
       /\ iter # shader.sentinel
       /\ iter # shader.interior

C8_Witness ==
    /\ pc = "done" /\ props.c = <<0, 0>> /\ props.p = 2 /\ ~HasExpr
    /\ Dot(z0) > 4 /\ Dot(z0) <= 10 /\ iter = 0

\* C9: on a re-render of a mounted JuliaFieldFractal the shader object is a
\* new one exactly when fieldExpr or maxIterations differs from the previous
\* render; otherwise the same object is kept and only the uniforms change;
\* the shader in use is the one generated from this render's fieldExpr and
\* maxIterations.
C9_Rerender ==
    renders' = renders + 1 =>
       /\ (memo'[2] # memo[2]) <=>
             (props'.fieldExpr # props.fieldExpr
                \/ props'.maxIterations # props.maxIterations)
       /\ memo'[2] = memo[2] => shader' = shader
       /\ shader'.iterations =
             (IF props'.maxIterations # <<>> /\ props'.maxIterations[1] # 0
              THEN props'.maxIterations[1] ELSE 64)
       /\ shader'.expr =
             (IF props'.fieldExpr # <<>> /\ props'.fieldExpr[1] # ""
              THEN props'.fieldExpr ELSE <<>>)
       /\ uniforms'.p = props'.p /\ uniforms'.c = props'.c
       /\ uniforms'.image = props'.image

C9_Memo == [][C9_Rerender]_vars

C9_Witness ==
    /\ renders = 2 /\ created = 2
    /\ memo[1] = <<props.fieldExpr, props.maxIterations>>

\* C10: when fieldExpr is evaluated in iteration i, z is the iterate at the
\* start of iteration i, z0 the start point, the accumulated colour holds
\* i+1 samples, and lastZ is the iterate at the start of iteration i-1 (z0
\* for i = 0); lastZ becomes z after the evaluation and before the power map.
C10_Start(k) == zs[k + 1]

C10_Bindings ==
    (IsField /\ pc \in {"field", "lastz", "map"}) =>
       /\ Len(zs) = i + 1
       /\ z = C10_Start(i)
       /\ z0 = C10_Start(0)
       /\ sampleCount = i + 1
       /\ pc = "field" => lastZ = C10_Start(IF i = 0 THEN 0 ELSE i - 1)
       /\ pc = "map" => lastZ = C10_Start(i)
       /\ (pc = "lastz" /\ HasExpr) =>
             /\ bind.i = i
             /\ bind.z = C10_Start(i)
             /\ bind.z0 = C10_Start(0)
             /\ bind.lastZ = C10_Start(IF i = 0 THEN 0 ELSE i - 1)
             /\ bind.samples = i + 1
             /\ bind.accum = Accum
             /\ lastZ = bind.lastZ

C10_Witness ==
    /\ IsField /\ HasExpr /\ pc = "lastz" /\ i >= 2
    /\ bind.lastZ # bind.z /\ bind.lastZ # bind.z0 /\ ~bind.z.nan

====
